---- MODULE Spec2Model ----
(***************************************************************************)
(* Model of the TV/CEC part of server.py (danielbrauer/tvmaster).          *)
(*                                                                         *)
(* The LAN Flask app serves /tv/status, /tv/on and /tv/off.  Each handler  *)
(* calls tv_status / tv_on / tv_off, each of which calls cec_send once;    *)
(* cec_send runs one `cec-client -s -d 1` subprocess, feeds it a command   *)
(* line on stdin and returns (returncode == 0, stdout.strip()).            *)
(*                                                                         *)
(* Texts are modelled as sequences of one-character strings so that        *)
(* lower(), strip(), splitlines(), split() and `in` are computed the way   *)
(* Python computes them.                                                   *)
(***************************************************************************)
EXTENDS Integers, Sequences, FiniteSets, TLC

\* Number of request threads of the (threaded) Flask development server.
NumThreads == 2

\* Number of requests served in a behaviour, over all threads.
MaxCalls == 2

Threads == 1..NumThreads

----------------------------------------------------------------------------
\* Texts of the program and of cec-client

\* CEC_DEVICE = "0"
CEC_DEVICE ==
    <<"0">>

OnPrefix ==
    <<"o", "n", " ">>

StandbyPrefix ==
    <<"s", "t", "a", "n", "d", "b", "y", " ">>

PowPrefix ==
    <<"p", "o", "w", " ">>

\* "cec-client not found"
NotFoundMsg ==
    <<"c", "e", "c", "-", "c", "l", "i", "e", "n", "t", " ", "n", "o", "t", " ", "f", "o", "u", "n", "d">>

\* "cec-client timed out"
TimedOutMsg ==
    <<"c", "e", "c", "-", "c", "l", "i", "e", "n", "t", " ", "t", "i", "m", "e", "d", " ", "o", "u", "t">>

\* "TV turned on"
TurnedOnMsg ==
    <<"T", "V", " ", "t", "u", "r", "n", "e", "d", " ", "o", "n">>

\* "TV turned off"
TurnedOffMsg ==
    <<"T", "V", " ", "t", "u", "r", "n", "e", "d", " ", "o", "f", "f">>

\* "on"
OnWord ==
    <<"o", "n">>

\* "off"
OffWord ==
    <<"o", "f", "f">>

\* "power status:"
PowerStatusKey ==
    <<"p", "o", "w", "e", "r", " ", "s", "t", "a", "t", "u", "s", ":">>

\* "could not parse power status: "
CouldNotParse ==
    <<"c", "o", "u", "l", "d", " ", "n", "o", "t", " ", "p", "a", "r", "s", "e", " ", "p", "o", "w", "e", "r", " ", "s", "t", "a", "t", "u", "s", ":", " ">>

\* First line cec-client prints: "opening a connection to the CEC adapter...\n"
Banner ==
    <<"o", "p", "e", "n", "i", "n", "g", " ", "a", " ", "c", "o", "n", "n", "e", "c", "t", "i", "o", "n", " ", "t", "o", " ", "t", "h", "e", " ", "C", "E", "C", " ", "a", "d", "a", "p", "t", "e", "r", ".", ".", ".", "\n">>

\* What cec-client prints when it cannot open an adapter: "autodetect FAILED\n"
OpenFailText ==
    <<"a", "u", "t", "o", "d", "e", "t", "e", "c", "t", " ", "F", "A", "I", "L", "E", "D", "\n">>

\* "power status: ", the label cec-client prints before the state
StatusLabel ==
    <<"p", "o", "w", "e", "r", " ", "s", "t", "a", "t", "u", "s", ":", " ">>

\* libcec's names of the five power states
TextOn ==
    <<"o", "n">>

TextStandby ==
    <<"s", "t", "a", "n", "d", "b", "y">>

TextToOn ==
    <<"i", "n", " ", "t", "r", "a", "n", "s", "i", "t", "i", "o", "n", " ", "f", "r", "o", "m", " ", "s", "t", "a", "n", "d", "b", "y", " ", "t", "o", " ", "o", "n">>

TextToStandby ==
    <<"i", "n", " ", "t", "r", "a", "n", "s", "i", "t", "i", "o", "n", " ", "f", "r", "o", "m", " ", "o", "n", " ", "t", "o", " ", "s", "t", "a", "n", "d", "b", "y">>

TextUnknown ==
    <<"u", "n", "k", "n", "o", "w", "n">>

UpperAlpha ==
    <<"A", "B", "C", "D", "E", "F", "G", "H", "I", "J", "K", "L", "M", "N", "O", "P", "Q", "R", "S", "T", "U", "V", "W", "X", "Y", "Z">>

LowerAlpha ==
    <<"a", "b", "c", "d", "e", "f", "g", "h", "i", "j", "k", "l", "m", "n", "o", "p", "q", "r", "s", "t", "u", "v", "w", "x", "y", "z">>

----------------------------------------------------------------------------
\* Python string operations

Min(S) == CHOOSE x \in S : \A y \in S : x <= y

Max(S) == CHOOSE x \in S : \A y \in S : x >= y

\* str.lower() on one character
LowerChar(c) ==
    IF \E i \in 1..Len(UpperAlpha) : UpperAlpha[i] = c
    THEN LowerAlpha[CHOOSE i \in 1..Len(UpperAlpha) : UpperAlpha[i] = c]
    ELSE c

\* str.lower()
lower(s) == [i \in 1..Len(s) |-> LowerChar(s[i])]

IsSpace(c) == c \in {" ", "\n", "\t"}

RECURSIVE LStrip(_)
LStrip(s) == IF s # <<>> /\ IsSpace(Head(s)) THEN LStrip(Tail(s)) ELSE s

RECURSIVE RStrip(_)
RStrip(s) ==
    IF s # <<>> /\ IsSpace(s[Len(s)]) THEN RStrip(SubSeq(s, 1, Len(s) - 1)) ELSE s

\* str.strip()
strip(s) == RStrip(LStrip(s))

StartsWith(s, p) == Len(s) >= Len(p) /\ SubSeq(s, 1, Len(p)) = p

\* The positions at which sub occurs in s
Occurrences(s, sub) ==
    {i \in 1..(Len(s) - Len(sub) + 1) : SubSeq(s, i, i + Len(sub) - 1) = sub}

\* `sub in s`
Contains(s, sub) == Occurrences(s, sub) # {}

\* s.split(sep)[-1]: what follows the last occurrence of sep, or s itself
\* (the separators used here cannot overlap themselves)
AfterLast(s, sep) ==
    IF Occurrences(s, sep) = {} THEN s
    ELSE SubSeq(s, Max(Occurrences(s, sep)) + Len(sep), Len(s))

\* str.splitlines() for "\n" line ends
RECURSIVE splitlines(_)
splitlines(s) ==
    IF s = <<>> THEN <<>>
    ELSE LET nl == {i \in 1..Len(s) : s[i] = "\n"}
         IN  IF nl = {} THEN <<s>>
             ELSE <<SubSeq(s, 1, Min(nl) - 1)>>
                      \o splitlines(SubSeq(s, Min(nl) + 1, Len(s)))

----------------------------------------------------------------------------
\* The outcome of subprocess.run and the functions built on it

\* subprocess.run raised FileNotFoundError: there is no cec-client binary
RunNotFound == [kind |-> "FileNotFoundError", returncode |-> 0, stdout |-> <<>>]

\* subprocess.run raised another OSError (PermissionError: not executable)
RunOSError == [kind |-> "PermissionError", returncode |-> 0, stdout |-> <<>>]

\* subprocess.run raised TimeoutExpired after killing the child
RunTimeout == [kind |-> "TimeoutExpired", returncode |-> 0, stdout |-> <<>>]

\* subprocess.run returned a CompletedProcess
RunCompleted(rc, out) == [kind |-> "completed", returncode |-> rc, stdout |-> out]

\* The exceptions cec_send has an except clause for
Caught == {"FileNotFoundError", "TimeoutExpired"}

\* cec_send lets the exception of this run propagate to its caller
Raises(run) == run.kind # "completed" /\ run.kind \notin Caught

\* cec_send with the FileNotFoundError clause returning the other message
cec_send_swapped(run) ==
    CASE run.kind = "FileNotFoundError" -> [ok |-> FALSE, msg |-> TimedOutMsg]
      [] run.kind = "TimeoutExpired"    -> [ok |-> FALSE, msg |-> TimedOutMsg]
      [] OTHER -> [ok |-> run.returncode = 0, msg |-> strip(run.stdout)]

\* cec_send(command) -> (success, output), given what subprocess.run did
cec_send(run) ==
    CASE run.kind = "FileNotFoundError" -> [ok |-> FALSE, msg |-> NotFoundMsg]
      [] run.kind = "TimeoutExpired"    -> [ok |-> FALSE, msg |-> TimedOutMsg]
      [] OTHER -> [ok |-> run.returncode = 0, msg |-> strip(run.stdout)]

\* f"on {CEC_DEVICE}"
OnCommand == OnPrefix \o CEC_DEVICE

\* tv_off sending the command of tv_on
StandbyCommandSwapped == OnPrefix \o CEC_DEVICE

\* f"standby {CEC_DEVICE}"
StandbyCommand == StandbyPrefix \o CEC_DEVICE

\* tv_status sending the command of tv_on
PowCommandSwapped == OnPrefix \o CEC_DEVICE

\* f"pow {CEC_DEVICE}"
PowCommand == PowPrefix \o CEC_DEVICE

tv_on(run) ==
    LET r == cec_send(run)
    IN  [ok |-> r.ok, msg |-> IF r.ok THEN TurnedOnMsg ELSE r.msg]

tv_off(run) ==
    LET r == cec_send(run)
    IN  [ok |-> r.ok, msg |-> IF r.ok THEN TurnedOffMsg ELSE r.msg]

\* The lines of output in which "power status:" occurs (after lower())
StatusLines(output) ==
    LET lines == splitlines(output)
    IN  {i \in 1..Len(lines) : Contains(lower(lines[i]), PowerStatusKey)}

tv_status(run) ==
    LET r == cec_send(run)
    IN  IF ~r.ok THEN [ok |-> FALSE, msg |-> r.msg]
        ELSE IF StatusLines(r.msg) = {}
             THEN [ok |-> FALSE, msg |-> CouldNotParse \o r.msg]
             ELSE LET line == lower(splitlines(r.msg)[Min(StatusLines(r.msg))])
                  IN  IF Contains(AfterLast(line, PowerStatusKey), OnWord)
                      THEN [ok |-> TRUE, msg |-> OnWord]
                      ELSE [ok |-> TRUE, msg |-> OffWord]

\* The command each operation passes to cec_send
CommandOf(kind) ==
    CASE kind = "on"     -> OnCommand
      [] kind = "off"    -> StandbyCommand
      [] kind = "status" -> PowCommand

\* What the operation returns to its HTTP handler
Outcome(kind, run) ==
    CASE kind = "on"     -> tv_on(run)
      [] kind = "off"    -> tv_off(run)
      [] kind = "status" -> tv_status(run)

----------------------------------------------------------------------------
\* cec-client and the television

PowerStates == {"on", "standby", "to_on", "to_standby"}

\* The text libcec prints for a power state
StateText(s) ==
    CASE s = "on"         -> TextOn
      [] s = "standby"    -> TextStandby
      [] s = "to_on"      -> TextToOn
      [] s = "to_standby" -> TextToStandby
      [] OTHER            -> TextUnknown

\* The CEC message cec-client transmits for a command line
Opcode(cmd) ==
    IF StartsWith(cmd, OnPrefix) THEN "on"
    ELSE IF StartsWith(cmd, StandbyPrefix) THEN "standby"
    ELSE IF StartsWith(cmd, PowPrefix) THEN "pow"
    ELSE "none"

\* The power state of the television after it received a message.  A
\* television in mode "stuck" acknowledges every message and stays as it is.
DeviceReact(power, mode, opcode) ==
    IF mode = "stuck" THEN power
    ELSE CASE opcode = "on" /\ power \in {"standby", "to_standby"} -> "to_on"
           [] opcode = "standby" /\ power \in {"on", "to_on"} -> "to_standby"
           [] OTHER -> power

NoReport == [query |-> <<0, 0>>, state |-> "none"]

NoQuery == <<0, 0>>

NoProc == [stage |-> "none", cmd |-> <<>>, rc |-> 0, reply |-> NoReport]

\* The pipe subprocess.run reads the child's stdout from, reused between calls
NewCaptureReused(old) == old

\* capture_output=True: every call of subprocess.run reads from a new pipe
NewCapture(old) == [text |-> <<>>, query |-> NoQuery]

NoResult == [ok |-> FALSE, msg |-> <<>>]

NoPrev == [op |-> "none", ok |-> FALSE, clean |-> FALSE, endStandby |-> FALSE]

----------------------------------------------------------------------------
\* State

VARIABLES
    binary,    \* the cec-client binary: "ok", "missing" or "noexec"
    tvMode,    \* "normal", or "stuck" for a television that never powers on
    tvPower,   \* the power state of the television
    pc,        \* per thread: "idle", "send" (inside subprocess.run), "done", "raised"
    op,        \* per thread: the operation of its current request
    calls,     \* per thread: the number of requests it has taken
    proc,      \* per thread: the cec-client child of its current cec_send
    capture,   \* per thread: the stdout pipe of its current subprocess.run
    result,    \* per thread: the (success, message) its operation returned
    sends,     \* per thread: the commands its operation passed to cec_send
    frames,    \* per thread: the CEC messages its child put on the bus
    track,     \* per thread: the television as its tv_off met and left it
    prev       \* per thread: summary of its previous request, if a clean tv_off

vars == <<binary, tvMode, tvPower, pc, op, calls, proc, capture, result,
          sends, frames, track, prev>>

NoTrack == [calm |-> FALSE, endStandby |-> FALSE]

RECURSIVE Sum(_, _)
Sum(f, S) ==
    IF S = {} THEN 0
    ELSE LET x == CHOOSE y \in S : TRUE IN f[x] + Sum(f, S \ {x})

\* The identity of the request thread t is serving
QueryId(t) == <<t, calls[t]>>

\* The child of t ran to its end (exit status 0); the television was in
\* Standby when the request came in (track.calm) and no power-on message of
\* another request has reached it since
Clean(t) ==
    /\ proc[t].stage = "returned"
    /\ proc[t].rc = 0
    /\ track[t].calm

Init ==
    /\ binary \in {"ok", "missing", "noexec"}
    /\ tvMode \in {"normal", "stuck"}
    /\ tvPower \in (IF tvMode = "stuck" THEN {"standby"} ELSE PowerStates)
    /\ pc = [t \in Threads |-> "idle"]
    /\ op = [t \in Threads |-> "none"]
    /\ calls = [t \in Threads |-> 0]
    /\ proc = [t \in Threads |-> NoProc]
    /\ capture = [t \in Threads |-> [text |-> <<>>, query |-> NoQuery]]
    /\ result = [t \in Threads |-> NoResult]
    /\ sends = [t \in Threads |-> <<>>]
    /\ frames = [t \in Threads |-> <<>>]
    /\ track = [t \in Threads |-> NoTrack]
    /\ prev = [t \in Threads |-> NoPrev]

\* cec_send of thread t is over with outcome run of subprocess.run: the
\* operation kind returns to its handler, or the exception propagates
Finish(t, kind, run) ==
    /\ pc' = [pc EXCEPT ![t] = IF Raises(run) THEN "raised" ELSE "done"]
    /\ result' = [result EXCEPT ![t] =
                     IF Raises(run) THEN NoResult ELSE Outcome(kind, run)]

\* A request arrives on thread t: the handler calls tv_<kind>, which calls
\* cec_send, which calls subprocess.run.  Without a runnable binary the call
\* is over at once; otherwise the thread blocks on the child.
Handle(t, kind) ==
    /\ pc[t] \in {"idle", "done", "raised"}
    /\ Sum(calls, Threads) < MaxCalls
    /\ calls' = [calls EXCEPT ![t] = @ + 1]
    /\ op' = [op EXCEPT ![t] = kind]
    /\ prev' = [prev EXCEPT ![t] =
                   IF pc[t] # "done" \/ op[t] # "off" \/ ~Clean(t) THEN NoPrev
                   ELSE [op |-> op[t], ok |-> result[t].ok,
                         clean |-> Clean(t),
                         endStandby |-> track[t].endStandby]]
    /\ sends' = [sends EXCEPT ![t] = <<CommandOf(kind)>>]
    /\ frames' = [frames EXCEPT ![t] = <<>>]
    /\ capture' = [capture EXCEPT ![t] = NewCapture(@)]
    /\ IF binary = "ok"
       THEN /\ pc' = [pc EXCEPT ![t] = "send"]
            /\ proc' = [proc EXCEPT ![t] =
                           [stage |-> "start", cmd |-> CommandOf(kind),
                            rc |-> 0, reply |-> NoReport]]
            /\ result' = [result EXCEPT ![t] = NoResult]
            /\ track' = [track EXCEPT ![t] =
                            [calm |-> kind = "off" /\ tvPower = "standby",
                             endStandby |-> FALSE]]
       ELSE /\ Finish(t, kind, IF binary = "missing" THEN RunNotFound
                                                     ELSE RunOSError)
            /\ proc' = [proc EXCEPT ![t] = NoProc]
            /\ track' = [track EXCEPT ![t] =
                            [calm |-> kind = "off" /\ tvPower = "standby",
                             endStandby |-> kind = "off" /\ tvPower = "standby"]]
    /\ UNCHANGED <<binary, tvMode, tvPower>>

\* GET /tv/status
tv_status_handler(t) == Handle(t, "status")

\* POST /tv/on
tv_on_handler(t) == Handle(t, "on")

\* POST /tv/off
tv_off_handler(t) == Handle(t, "off")

\* cec-client cannot open the adapter: it prints an error and exits with 1
ProcOpenFail(t) ==
    /\ pc[t] = "send"
    /\ proc[t].stage = "start"
    /\ proc' = [proc EXCEPT ![t].stage = "exited", ![t].rc = 1]
    /\ capture' = [capture EXCEPT ![t].text = @ \o OpenFailText]
    /\ UNCHANGED <<binary, tvMode, tvPower, pc, op, calls, result, sends,
                   frames, track, prev>>

\* cec-client transmits the message of its command line and the television
\* reacts, answering a power-status query with a report or not at all.  Then
\* cec-client prints what it has and exits with 0 (for a power-status query
\* the reported state, "unknown" without a report, unless it ends before
\* printing it), or it blocks and will not exit by itself.
ProcRun(t) ==
    /\ pc[t] = "send"
    /\ proc[t].stage = "start"
    /\ LET code == Opcode(proc[t].cmd)
       IN  /\ tvPower' = DeviceReact(tvPower, tvMode, code)
           /\ frames' = [frames EXCEPT ![t] = Append(@, code)]
           /\ track' = [u \in Threads |->
                           IF u # t /\ pc[u] = "send" /\ code = "on"
                           THEN [track[u] EXCEPT !.calm = FALSE]
                           ELSE track[u]]
           /\ \E answered \in (IF code = "pow" THEN BOOLEAN ELSE {FALSE}),
                 ending \in (IF code = "pow" THEN {"prints", "silent", "hangs"}
                                             ELSE {"silent", "hangs"}) :
                 LET status == code = "pow" /\ ending = "prints"
                     reply == IF status /\ answered
                              THEN [query |-> QueryId(t), state |-> tvPower]
                              ELSE NoReport
                     out == IF ending = "hangs" THEN <<>>
                            ELSE IF status
                            THEN Banner \o StatusLabel \o StateText(reply.state)
                                        \o <<"\n">>
                            ELSE Banner
                 IN  /\ proc' = [proc EXCEPT
                                    ![t].stage = IF ending = "hangs"
                                                 THEN "hung" ELSE "exited",
                                    ![t].reply = reply]
                     /\ capture' = [capture EXCEPT
                                       ![t].text = @ \o out,
                                       ![t].query = IF status /\ @ = NoQuery
                                                    THEN QueryId(t) ELSE @]
    /\ UNCHANGED <<binary, tvMode, pc, op, calls, result, sends, prev>>

\* The child has exited: subprocess.run returns, cec_send returns
\* (returncode == 0, stdout.strip()) and the operation returns
Return(t) ==
    /\ pc[t] = "send"
    /\ proc[t].stage = "exited"
    /\ Finish(t, op[t], RunCompleted(proc[t].rc, capture[t].text))
    /\ proc' = [proc EXCEPT ![t].stage = "returned"]
    /\ track' = [track EXCEPT
                    ![t].endStandby = (op[t] = "off" /\ tvPower = "standby")]
    /\ UNCHANGED <<binary, tvMode, tvPower, op, calls, capture, sends, frames,
                   prev>>

\* timeout=10 elapses before the child has exited (it is slow, or it blocks
\* and would never exit by itself): subprocess.run kills it and raises
\* TimeoutExpired
Timeout(t) ==
    /\ pc[t] = "send"
    /\ proc[t].stage \in {"start", "hung"}
    /\ Finish(t, op[t], RunTimeout)
    /\ proc' = [proc EXCEPT ![t].stage = "killed"]
    /\ track' = [track EXCEPT
                    ![t].endStandby = (op[t] = "off" /\ tvPower = "standby")]
    /\ UNCHANGED <<binary, tvMode, tvPower, op, calls, capture, sends, frames,
                   prev>>

\* The television completes a power transition
DeviceSettle ==
    /\ tvPower \in {"to_on", "to_standby"}
    /\ tvPower' = IF tvPower = "to_on" THEN "on" ELSE "standby"
    /\ UNCHANGED <<binary, tvMode, pc, op, calls, proc, capture, result,
                   sends, frames, track, prev>>

Next ==
    \/ \E t \in Threads : tv_status_handler(t)
    \/ \E t \in Threads : tv_on_handler(t)
    \/ \E t \in Threads : tv_off_handler(t)
    \/ \E t \in Threads : ProcOpenFail(t)
    \/ \E t \in Threads : ProcRun(t)
    \/ \E t \in Threads : Return(t)
    \/ \E t \in Threads : Timeout(t)
    \/ DeviceSettle

Spec == Init /\ [][Next]_vars

TypeOK ==
    /\ binary \in {"ok", "missing", "noexec"}
    /\ tvPower \in PowerStates
    /\ \A t \in Threads :
          /\ pc[t] \in {"idle", "send", "done", "raised"}
          /\ calls[t] \in 0..MaxCalls
          /\ result[t].ok \in BOOLEAN

----------------------------------------------------------------------------
\* Properties

\* "CEC not initialized"
NotInitializedMsg ==
    <<"C", "E", "C", " ", "n", "o", "t", " ", "i", "n", "i", "t", "i", "a", "l", "i", "z", "e", "d">>

\* Thread t is inside cec_send: its subprocess.run has started and has not
\* returned
InSend(t) == pc[t] = "send"

\* Thread t has a status result from a child that ran to its end
StatusDone(t) == pc[t] = "done" /\ op[t] = "status"

\* C1: at most one operation is executing against the bus at any instant: no
\* cec_send starts while the cec_send of another operation has started and
\* not yet returned.
C1_OneSendAtATime == Cardinality({t \in Threads : InSend(t)}) <= 1

\* C2: tv_on returns success only when the television has been observed On
\* after the command, tv_off only when it has been observed Standby: at the
\* step that returns success, a report naming the target state was received
\* by the operation, or at the least the television is in that state.
C2_SuccessIsObserved ==
    [][\A t \in Threads :
         (InSend(t) /\ pc'[t] = "done" /\ result'[t].ok) =>
             /\ op[t] = "on" =>
                   (proc[t].reply.state = "on" \/ tvPower' = "on")
             /\ op[t] = "off" =>
                   (proc[t].reply.state = "standby" \/ tvPower' = "standby")]_vars

C5_NoUnhandledFault == \A t \in Threads : pc[t] # "raised"

\* C6: every operation returns a terminal outcome, success or failure, and
\* none waits for ever: a request that is in progress can always take a step
\* (its child is running under the timeout, or has exited), and a request,
\* once taken, is in progress until it returns its (success, message); no
\* step ends it in another way.
C6_EveryCallReturns ==
    /\ [](\A t \in Threads :
            InSend(t) => proc[t].stage \in {"start", "hung", "exited"})
    /\ [][\A t \in Threads :
            (calls'[t] # calls[t] \/ InSend(t)) => pc'[t] \in {"send", "done"}]_vars

\* C7: tv_on against a television that accepts the power-on message and never
\* reports On ends in failure, after the power-on messages of its retries.
C7_StuckTvFails ==
    \A t \in Threads :
        (tvMode = "stuck" /\ pc[t] = "done" /\ op[t] = "on"
           /\ proc[t].stage = "returned" /\ proc[t].rc = 0) =>
            /\ ~result[t].ok
            /\ Len(frames[t]) >= 1

\* C8: tv_off is idempotent on a television in Standby: with normal
\* transmission a tv_off returns (True, "TV turned off") with the television
\* still in Standby, and so did the tv_off before it.
C8_OffIdempotent ==
    \A t \in Threads :
        /\ (pc[t] = "done" /\ op[t] = "off" /\ Clean(t)) =>
              /\ result[t] = [ok |-> TRUE, msg |-> TurnedOffMsg]
              /\ track[t].endStandby
        /\ (prev[t].op = "off" /\ prev[t].clean) =>
              /\ prev[t].ok
              /\ prev[t].endStandby

\* C8 witness: two consecutive tv_off calls of a thread on a television in
\* Standby have both returned.
C8_Witness ==
    \E t \in Threads :
        /\ pc[t] = "done" /\ op[t] = "off" /\ Clean(t)
        /\ prev[t].op = "off" /\ prev[t].clean

\* C9: tv_status is one-shot and non-mutating: each call passes exactly one
\* command, the power-status query, to cec_send; its child transmits at most
\* that one query (exactly one when it runs to its end) and nothing else; and
\* no step of the call changes the power state of the television.
C9_StatusOneShot ==
    /\ [](\A t \in Threads :
            op[t] = "status" =>
                /\ sends[t] = <<PowCommand>>
                /\ frames[t] \in {<<>>, <<"pow">>}
                /\ (proc[t].stage = "returned" /\ proc[t].rc = 0
                      => frames[t] = <<"pow">>))
    /\ [][\A t \in Threads :
            (op'[t] = "status" /\ <<pc[t], proc[t]>>' # <<pc[t], proc[t]>>)
                => tvPower' = tvPower]_vars

\* C9 witness: a status call has returned the state of a television that is
\* on, after exactly one query on the bus.
C9_Witness ==
    \E t \in Threads :
        /\ StatusDone(t) /\ result[t].ok
        /\ frames[t] = <<"pow">>
        /\ tvPower = "on"

\* C10: the state tv_status returns is the state the report names: "on" only
\* for On, neither "on" nor "off" for a transitional or unknown state, and no
\* definite state when the output has no power-status line.
C10_ParseNamesState ==
    \A t \in Threads :
        (StatusDone(t) /\ proc[t].stage = "returned" /\ proc[t].rc = 0) =>
            IF StatusLines(strip(capture[t].text)) = {}
            THEN ~result[t].ok
            ELSE /\ result[t].msg = OnWord => proc[t].reply.state = "on"
                 /\ proc[t].reply.state \in {"to_on", "to_standby", "none"}
                       => ~(result[t].ok /\ result[t].msg \in {OnWord, OffWord})

====
